---- MODULE Spec2Model ----
(***************************************************************************)
(* Upload queue of the Preserve page (frontend/app/preserve/page.tsx):     *)
(* the uploadQueue React state, its handlers (handleFilesSelected,         *)
(* handleUpdateItem, handleUploadItem, handleRemoveFromQueue) and the       *)
(* uploadFile pipeline, one asynchronous task per invocation, resumed at    *)
(* each await.                                                              *)
(***************************************************************************)
EXTENDS Integers, Sequences, FiniteSets, TLC

VARIABLES
    uploadQueue,    \* latest value of the uploadQueue state (all updaters applied)
    rendered,       \* the uploadQueue value of the last render, seen by closures
    lag,            \* steps taken since the last render
    tasks,          \* the uploadFile invocations awaiting a network call or a timer
    now,            \* Date.now(), in ms
    refresh,        \* mutateAssets() calls made by the last step
    removed         \* statuses of the items the last step took out of the queue

vars == <<uploadQueue, rendered, lag, tasks, now, refresh, removed>>

-----------------------------------------------------------------------------
(* Bounds of the model *)

MaxItems == 2       \* items held by the queue at once
MaxBatch == 2       \* files of one selection
MaxTasks == 1       \* uploadFile invocations in flight at once
ConcTasks == 2      \* the same, where pipelines run concurrently
MaxLag   == 2       \* steps that run before the next render
MaxNow   == 90000   \* the clock stops here
MaxQueue == 11      \* items held by the queue where whole selections are dropped

(* Program constants *)

DeadlineMs == 90000
IntervalMs == 3000
MaxFiles == 10

(* Steps of the clock: one poll interval, or the whole polling deadline. *)
FineTickMs   == IntervalMs
CoarseTickMs == DeadlineMs

-----------------------------------------------------------------------------
(* Strings are sequences of characters; " " is the whitespace character.   *)

Undefined == <<"undefined">>
NoError   == "undefined"

IsSpace(c) == c = " "

RECURSIVE TrimStart(_)
TrimStart(s) ==
    IF s = <<>> THEN <<>>
    ELSE IF IsSpace(Head(s)) THEN TrimStart(Tail(s)) ELSE s

RECURSIVE TrimEnd(_)
TrimEnd(s) ==
    IF s = <<>> THEN <<>>
    ELSE IF IsSpace(s[Len(s)]) THEN TrimEnd(SubSeq(s, 1, Len(s) - 1)) ELSE s

Trim(s) == TrimEnd(TrimStart(s))

\* !value?.trim()
Blank(value) == value = Undefined \/ Trim(value) = <<>>

RequiredMsg == "Title, location, and date are required before upload."
TimeoutMsg  == "Upload succeeded, but metadata could not be saved yet."
S3Msg       == "Failed to upload file to S3"
ApiMsg      == "API Error: 500 Internal Server Error"
FetchMsg    == "Failed to fetch"

-----------------------------------------------------------------------------
(* Inputs *)

PngFile == [name |-> "a.png", type |-> "image/png", size |-> 10]
TxtFile == [name |-> "b.txt", type |-> "text/plain", size |-> 20]
Files == {PngFile, TxtFile}

RandomSuffixes == {"r1", "r2"}

\* an id that no queued item has
GhostId == <<"gone.png", 0, "r0">>

FileBatches(files) == UNION { [1..n -> files] : n \in 1..MaxBatch }

Partials ==
    { [title |-> <<" ", "t">>, location |-> <<"l">>, date |-> <<"d", " ">>],
      [location |-> <<" ">>] }

\* the sizes of a selection: empty, one file less than the most accepted,
\* the most accepted, one file more
DropSizes == {0, MaxFiles - 1, MaxFiles, MaxFiles + 1}
Selection(n) == [k \in 1..n |-> PngFile]
\* the random suffixes drawn for the files of one selection
RandomRuns(n) ==
    { [k \in 1..n |-> IF k % 2 = 1 THEN a ELSE b] : a, b \in RandomSuffixes }

ApiOutcomes  == {"ok", "http"}
PutOutcomes  == {"ok", "http", "network"}
PollOutcomes == {"units", "empty", "http"}

-----------------------------------------------------------------------------
(* The queue *)

Ids(q) == { q[k].id : k \in DOMAIN q }

\* a map that applies the updates to every item: prev.map((item) => ({ ...item, ...updates }))
MapUpdate_All(prev, id, updates) ==
    [k \in DOMAIN prev |-> [f \in DOMAIN prev[k] |->
        IF f \in DOMAIN updates THEN updates[f] ELSE prev[k][f]]]

\* a merge that keeps of the metadata only the fields given: { id, file, status, ..., ...updates }
MergeItem_DropsOtherMetadata(item, updates) ==
    [f \in DOMAIN item |->
        IF f \in DOMAIN updates THEN updates[f]
        ELSE IF f \in {"title", "description", "location", "date"} THEN <<"undefined">>
        ELSE item[f]]

\* { ...item, ...updates }
MergeItem(item, updates) ==
    [f \in DOMAIN item |-> IF f \in DOMAIN updates THEN updates[f] ELSE item[f]]

\* a map that falls back on the first item when no id matches
MapUpdate_FirstIfMissing(prev, id, updates) ==
    [k \in DOMAIN prev |->
        IF prev[k].id = id \/ (k = 1 /\ \A j \in DOMAIN prev : prev[j].id # id)
        THEN [f \in DOMAIN prev[k] |->
                IF f \in DOMAIN updates THEN updates[f] ELSE prev[k][f]]
        ELSE prev[k]]

\* prev.map((item) => (item.id === id ? { ...item, ...updates } : item))
MapUpdate(prev, id, updates) ==
    [k \in DOMAIN prev |->
        IF prev[k].id = id THEN MergeItem(prev[k], updates) ELSE prev[k]]

\* a filter with its test inverted: prev.filter((item) => item.id === id)
FilterOut_KeepsMatches(prev, id) == SelectSeq(prev, LAMBDA item : item.id = id)

RECURSIVE FilterOut(_, _)
\* prev.filter((item) => item.id !== id)
FilterOut(prev, id) ==
    IF prev = <<>> THEN <<>>
    ELSE IF Head(prev).id # id
         THEN <<Head(prev)>> \o FilterOut(Tail(prev), id)
         ELSE FilterOut(Tail(prev), id)

\* uploadQueue.find((entry) => entry.id === id): index of the first match, 0 if none
FindIndex(q, id) ==
    IF \E k \in DOMAIN q : q[k].id = id
    THEN CHOOSE k \in DOMAIN q :
            /\ q[k].id = id
            /\ \A j \in DOMAIN q : q[j].id = id => k <= j
    ELSE 0

\* an id without its random suffix: `${file.name}-${Date.now()}`
NewId_NoSuffix(file, time, rnd) == <<file.name, time, "">>

\* `${file.name}-${Date.now()}-${Math.random().toString(36).slice(2)}`
NewId(file, time, rnd) == <<file.name, time, rnd>>

NewItem(file, time, rnd) ==
    [id |-> NewId(file, time, rnd), file |-> file,
     title |-> Undefined, description |-> Undefined,
     location |-> Undefined, date |-> Undefined,
     status |-> "pending", progress |-> 0, error |-> NoError]

NewItems(files, time, rnds) ==
    [k \in DOMAIN files |-> NewItem(files[k], time, rnds[k])]

\* setUploadQueue(updater): the updater runs on the latest state
SetUploadQueue(q) == uploadQueue' = q

-----------------------------------------------------------------------------
(* uploadFile *)

\* a validation that takes whitespace for a value: !item.title || ...
ValidationFails_NoTrim(item) ==
    \/ item.title \in {Undefined, <<>>}
    \/ item.location \in {Undefined, <<>>}
    \/ item.date \in {Undefined, <<>>}

ValidationFails(item) ==
    Blank(item.title) \/ Blank(item.location) \/ Blank(item.date)

\* a loop condition that admits the deadline itself: Date.now() <= deadline
DeadlineOpen_Inclusive(time, deadline) == time <= deadline

\* value?.trim() is a non-empty string
Present(value) == ~Blank(value)

\* a patch body with the fields as typed, untrimmed
PatchPayload_Untrimmed(item) ==
    [f \in { g \in {"title", "description"} : Present(item[g]) }
          \cup (IF Present(item.location) THEN {"places"} ELSE {})
          \cup (IF Present(item.date) THEN {"dates"} ELSE {}) |->
        CASE f = "places" -> <<item.location>>
          [] f = "dates"  -> <<item.date>>
          [] OTHER        -> item[f]]

\* the body of the updateMemoryUnits call (JSON.stringify leaves undefined fields out)
PatchPayload(item) ==
    [f \in { g \in {"title", "description"} : Present(item[g]) }
          \cup (IF Present(item.location) THEN {"places"} ELSE {})
          \cup (IF Present(item.date) THEN {"dates"} ELSE {}) |->
        CASE f = "places" -> <<Trim(item.location)>>
          [] f = "dates"  -> <<Trim(item.date)>>
          [] OTHER        -> Trim(item[f])]

\* Date.now() < deadline
DeadlineOpen(time, deadline) == time < deadline

\* initResponse and confirmResponse before their awaits have returned
NoInitResponse    == [upload_url |-> <<>>, object_key |-> <<>>, object_id |-> <<>>]
NoConfirmResponse == [media_asset_id |-> <<>>]

\* what the server answers to the initUpload request of invocation t: an
\* upload URL and an object of that exchange
InitResponse(t) ==
    [upload_url |-> <<"url", t>>, object_key |-> <<"key", t>>, object_id |-> <<"obj", t>>]

\* what the server answers to a confirmUpload request: the asset of the object
ConfirmResponse(request) == [media_asset_id |-> <<"asset", request.object_id>>]

\* the arguments of the five calls
InitRequest(item) ==
    [file_name |-> item.file.name, mime_type |-> item.file.type, bytes |-> item.file.size]
PutRequest(initResponse, item) == [url |-> initResponse.upload_url, file |-> item.file]
ConfirmRequest(initResponse, item) ==
    [object_id |-> initResponse.object_id, object_key |-> initResponse.object_key,
     file_name |-> item.file.name, mime_type |-> item.file.type, bytes |-> item.file.size]
PollRequest(confirmResponse) == [media_asset_id |-> confirmResponse.media_asset_id]
PatchRequest(confirmResponse) == [media_asset_id |-> confirmResponse.media_asset_id]

\* what uploadFile reads of its argument
Snapshot(item) ==
    [file |-> item.file, title |-> item.title, description |-> item.description,
     location |-> item.location, date |-> item.date]

\* an invocation that resumes after the last call the item's progress shows done
NewTask_Resumes(item) ==
    [id |-> item.id, item |-> Snapshot(item),
     pc |-> IF item.progress >= 30 THEN "put" ELSE "init", deadline |-> 0,
     wakeAt |-> 0,
     calls |-> IF item.progress >= 30 THEN <<"init", "put">> ELSE <<"init">>,
     body |-> <<>>,
     initResponse |-> NoInitResponse, confirmResponse |-> NoConfirmResponse,
     sent |-> IF item.progress >= 30
              THEN <<InitRequest(item), PutRequest(NoInitResponse, item)>>
              ELSE <<InitRequest(item)>>]

\* an invocation suspended at its first await, the initUpload call issued
NewTask(item) ==
    [id |-> item.id, item |-> Snapshot(item), pc |-> "init", deadline |-> 0,
     wakeAt |-> 0, calls |-> <<"init">>, body |-> <<>>,
     initResponse |-> NoInitResponse, confirmResponse |-> NoConfirmResponse,
     sent |-> <<InitRequest(item)>>]

\* an invocation that has returned: its locals are gone
Returned ==
    [id |-> <<>>, item |-> <<>>, pc |-> "done", deadline |-> 0,
     wakeAt |-> 0, calls |-> <<>>, body |-> <<>>,
     initResponse |-> NoInitResponse, confirmResponse |-> NoConfirmResponse,
     sent |-> <<>>]

Live(t) == t \in DOMAIN tasks /\ tasks[t].pc # "done"

\* the slot a new invocation takes: the first returned one, or a new one
FreeSlot ==
    IF \E t \in DOMAIN tasks : ~Live(t)
    THEN CHOOSE t \in DOMAIN tasks : ~Live(t) /\ \A u \in DOMAIN tasks : ~Live(u) => t <= u
    ELSE Len(tasks) + 1

Spawn(task) ==
    IF FreeSlot <= Len(tasks)
    THEN [tasks EXCEPT ![FreeSlot] = task]
    ELSE Append(tasks, task)

\* a thrown error without a message
ErrorMessage_Empty(op, outcome) == ""

\* apiRequest: throw new Error(`API Error: ...`); uploadToS3: throw new Error('Failed ...')
ErrorMessage(op, outcome) ==
    IF outcome = "network" THEN FetchMsg
    ELSE IF op = "put" THEN S3Msg ELSE ApiMsg

\* a timeout update that leaves the item in Processing
TimeoutUpdate_StaysProcessing == [status |-> "processing", error |-> TimeoutMsg]

\* a timeout update that reports the generic failure text
TimeoutUpdate_Generic == [status |-> "error", error |-> "Upload failed"]

\* a processing update that leaves the progress where the transfer put it
ProcessingUpdate_KeepsProgress == [status |-> "processing"]

\* the updates each step passes to updateUploadStatus
RequiredUpdate   == [status |-> "error", error |-> RequiredMsg]
UploadingUpdate  == [status |-> "uploading", progress |-> 10]
InitDoneUpdate   == [progress |-> 30]
PutDoneUpdate    == [progress |-> 70]
ProcessingUpdate == [status |-> "processing", progress |-> 90]
TimeoutUpdate    == [status |-> "error", error |-> TimeoutMsg]
CompleteUpdate   == [status |-> "complete", progress |-> 100]
\* a catch block that reports every failure with the timeout text
CatchUpdate_TimeoutText(op, outcome) == [status |-> "error", error |-> TimeoutMsg]

CatchUpdate(op, outcome) == [status |-> "error", error |-> ErrorMessage(op, outcome)]

\* an update computed from the queue of the last render: setUploadQueue(uploadQueue.map(...))
UpdateUploadStatus_Stale(id, updates) ==
    SetUploadQueue(MapUpdate(rendered, id, updates))

\* updateUploadStatus(id, updates)
UpdateUploadStatus(id, updates) ==
    SetUploadQueue(MapUpdate(uploadQueue, id, updates))

\* the catch block
Catch(t, op, outcome) ==
    /\ UpdateUploadStatus(tasks[t].id, CatchUpdate(op, outcome))
    /\ tasks' = [tasks EXCEPT ![t] = Returned]

\* uploadFile(item) up to its first await
UploadFile(item) ==
    IF ValidationFails(item)
    THEN /\ UpdateUploadStatus(item.id, RequiredUpdate)
         /\ UNCHANGED tasks
    ELSE /\ UpdateUploadStatus(item.id, UploadingUpdate)
         /\ tasks' = Spawn(NewTask(item))

\* an invocation that goes from initUpload straight to confirmUpload
AfterInitUpload_SkipsTransfer(t, outcome) ==
    /\ Live(t) /\ tasks[t].pc = "init"
    /\ IF outcome = "ok"
       THEN /\ UpdateUploadStatus(tasks[t].id, PutDoneUpdate)
            /\ tasks' = [tasks EXCEPT ![t].pc = "confirm",
                                      ![t].initResponse = InitResponse(t),
                                      ![t].calls = Append(@, "confirm"),
                                      ![t].sent = Append(@, ConfirmRequest(InitResponse(t),
                                                                           tasks[t].item))]
       ELSE Catch(t, "init", outcome)
    /\ refresh' = 0
    /\ removed' = {}
    /\ UNCHANGED now

\* an initResponse held in a binding that all invocations share
AfterInitUpload_SharedResponse(t, outcome) ==
    /\ Live(t) /\ tasks[t].pc = "init"
    /\ IF outcome = "ok"
       THEN /\ UpdateUploadStatus(tasks[t].id, InitDoneUpdate)
            /\ tasks' = [u \in DOMAIN tasks |->
                            IF u = t
                            THEN [tasks[t] EXCEPT !.pc = "put",
                                                  !.initResponse = InitResponse(t),
                                                  !.calls = Append(@, "put"),
                                                  !.sent = Append(@, PutRequest(InitResponse(t),
                                                                                tasks[t].item))]
                            ELSE [tasks[u] EXCEPT !.initResponse =
                                      IF Live(u) THEN InitResponse(t) ELSE @]]
       ELSE Catch(t, "init", outcome)
    /\ refresh' = 0
    /\ removed' = {}
    /\ UNCHANGED now

\* await initUpload(...) returns or throws
AfterInitUpload(t, outcome) ==
    /\ Live(t) /\ tasks[t].pc = "init"
    /\ IF outcome = "ok"
       THEN /\ UpdateUploadStatus(tasks[t].id, InitDoneUpdate)
            /\ tasks' = [tasks EXCEPT ![t].pc = "put",
                                      ![t].initResponse = InitResponse(t),
                                      ![t].calls = Append(@, "put"),
                                      ![t].sent = Append(@, PutRequest(InitResponse(t),
                                                                       tasks[t].item))]
       ELSE Catch(t, "init", outcome)
    /\ refresh' = 0
    /\ removed' = {}
    /\ UNCHANGED now

\* await uploadToS3(...) returns or throws
AfterUploadToS3(t, outcome) ==
    /\ Live(t) /\ tasks[t].pc = "put"
    /\ IF outcome = "ok"
       THEN /\ UpdateUploadStatus(tasks[t].id, PutDoneUpdate)
            /\ tasks' = [tasks EXCEPT ![t].pc = "confirm",
                                      ![t].calls = Append(@, "confirm"),
                                      ![t].sent = Append(@, ConfirmRequest(tasks[t].initResponse,
                                                                           tasks[t].item))]
       ELSE Catch(t, "put", outcome)
    /\ refresh' = 0
    /\ removed' = {}
    /\ UNCHANGED now

\* await confirmUpload(...) returns or throws; on return the loop is entered
AfterConfirmUpload(t, outcome) ==
    /\ Live(t) /\ tasks[t].pc = "confirm"
    /\ IF outcome = "ok"
       THEN LET deadline == now + DeadlineMs
                q1 == MapUpdate(uploadQueue, tasks[t].id, ProcessingUpdate)
                confirmResponse == ConfirmResponse(tasks[t].sent[Len(tasks[t].sent)])
            IN  IF DeadlineOpen(now, deadline)
                THEN /\ SetUploadQueue(q1)
                     /\ tasks' = [tasks EXCEPT ![t].pc = "poll",
                                               ![t].deadline = deadline,
                                               ![t].confirmResponse = confirmResponse,
                                               ![t].calls = Append(@, "poll"),
                                               ![t].sent = Append(@, PollRequest(confirmResponse))]
                ELSE /\ SetUploadQueue(MapUpdate(q1, tasks[t].id, TimeoutUpdate))
                     /\ tasks' = [tasks EXCEPT ![t] = Returned]
       ELSE Catch(t, "confirm", outcome)
    /\ refresh' = 0
    /\ removed' = {}
    /\ UNCHANGED now

\* a loop that tests the deadline again when a poll returns
AfterGetMemoryUnits_TestsDeadlineOnReturn(t, outcome) ==
    /\ Live(t) /\ tasks[t].pc = "poll"
    /\ IF outcome \in {"units", "empty"} /\ ~DeadlineOpen(now, tasks[t].deadline)
       THEN /\ UpdateUploadStatus(tasks[t].id, TimeoutUpdate)
            /\ tasks' = [tasks EXCEPT ![t] = Returned]
       ELSE CASE outcome = "units" ->
                   /\ tasks' = [tasks EXCEPT ![t].pc = "patch",
                                             ![t].calls = Append(@, "patch"),
                                             ![t].body = PatchPayload(tasks[t].item),
                                             ![t].sent = Append(@, PatchRequest(tasks[t].confirmResponse))]
                   /\ UNCHANGED uploadQueue
              [] outcome = "empty" ->
                   /\ tasks' = [tasks EXCEPT ![t].pc = "sleep",
                                             ![t].wakeAt = now + IntervalMs]
                   /\ UNCHANGED uploadQueue
              [] OTHER -> Catch(t, "poll", outcome)
    /\ refresh' = 0
    /\ removed' = {}
    /\ UNCHANGED now

\* a loop that takes a failed poll for an empty answer and goes on polling
AfterGetMemoryUnits_RetriesOnFailure(t, outcome) ==
    /\ Live(t) /\ tasks[t].pc = "poll"
    /\ IF outcome = "units"
       THEN tasks' = [tasks EXCEPT ![t].pc = "patch",
                                   ![t].calls = Append(@, "patch"),
                                   ![t].body = PatchPayload(tasks[t].item),
                                   ![t].sent = Append(@, PatchRequest(tasks[t].confirmResponse))]
       ELSE tasks' = [tasks EXCEPT ![t].pc = "sleep",
                                   ![t].wakeAt = now + IntervalMs]
    /\ refresh' = 0
    /\ removed' = {}
    /\ UNCHANGED <<uploadQueue, now>>

\* await getMemoryUnits(...) returns a list or throws
AfterGetMemoryUnits(t, outcome) ==
    /\ Live(t) /\ tasks[t].pc = "poll"
    /\ CASE outcome = "units" ->
              /\ tasks' = [tasks EXCEPT ![t].pc = "patch",
                                        ![t].calls = Append(@, "patch"),
                                        ![t].body = PatchPayload(tasks[t].item),
                                        ![t].sent = Append(@, PatchRequest(tasks[t].confirmResponse))]
              /\ UNCHANGED uploadQueue
         [] outcome = "empty" ->
              /\ tasks' = [tasks EXCEPT ![t].pc = "sleep",
                                        ![t].wakeAt = now + IntervalMs]
              /\ UNCHANGED uploadQueue
         [] OTHER -> Catch(t, "poll", outcome)
    /\ refresh' = 0
    /\ removed' = {}
    /\ UNCHANGED now

\* the setTimeout(resolve, 3000) promise resolves; the loop condition is tested
AfterSetTimeout(t) ==
    /\ Live(t) /\ tasks[t].pc = "sleep"
    /\ now >= tasks[t].wakeAt
    /\ IF DeadlineOpen(now, tasks[t].deadline)
       THEN /\ tasks' = [tasks EXCEPT ![t].pc = "poll",
                                      ![t].calls = Append(@, "poll"),
                                      ![t].sent = Append(@, PollRequest(tasks[t].confirmResponse))]
            /\ UNCHANGED uploadQueue
       ELSE /\ UpdateUploadStatus(tasks[t].id, TimeoutUpdate)
            /\ tasks' = [tasks EXCEPT ![t] = Returned]
    /\ refresh' = 0
    /\ removed' = {}
    /\ UNCHANGED now

\* an invocation that calls mutateAssets() however the patch ended (in a finally)
AfterUpdateMemoryUnits_AlwaysRefresh(t, outcome) ==
    /\ Live(t) /\ tasks[t].pc = "patch"
    /\ IF outcome = "ok"
       THEN /\ UpdateUploadStatus(tasks[t].id, CompleteUpdate)
            /\ tasks' = [tasks EXCEPT ![t] = Returned]
       ELSE Catch(t, "patch", outcome)
    /\ refresh' = 1
    /\ removed' = {}
    /\ UNCHANGED now

\* an invocation that takes a failed patch for a success (its own try/catch around the patch)
AfterUpdateMemoryUnits_SwallowsFailure(t, outcome) ==
    /\ Live(t) /\ tasks[t].pc = "patch"
    /\ UpdateUploadStatus(tasks[t].id, CompleteUpdate)
    /\ tasks' = [tasks EXCEPT ![t] = Returned]
    /\ refresh' = 1
    /\ removed' = {}
    /\ UNCHANGED now

\* await updateMemoryUnits(...) returns or throws
AfterUpdateMemoryUnits(t, outcome) ==
    /\ Live(t) /\ tasks[t].pc = "patch"
    /\ IF outcome = "ok"
       THEN /\ UpdateUploadStatus(tasks[t].id, CompleteUpdate)
            /\ tasks' = [tasks EXCEPT ![t] = Returned]
            /\ refresh' = 1
       ELSE /\ Catch(t, "patch", outcome)
            /\ refresh' = 0
    /\ removed' = {}
    /\ UNCHANGED now

-----------------------------------------------------------------------------
(* Handlers *)

HandleFilesSelected(files, rnds) ==
    /\ SetUploadQueue(uploadQueue \o NewItems(files, now, rnds))
    /\ refresh' = 0
    /\ removed' = {}
    /\ UNCHANGED <<tasks, now>>

\* the disabled prop: uploadQueue.some(uploading or processing)
Disabled(q) == \E k \in DOMAIN q : q[k].status \in {"uploading", "processing"}

\* files.slice(0, n)
Slice(files, n) == SubSeq(files, 1, IF Len(files) < n THEN Len(files) ELSE n)

\* a drop handler that takes no notice of the disabled prop
HandleDrop_IgnoresDisabled(files, rnds) ==
    IF Len(Slice(files, MaxFiles)) > 0
    THEN HandleFilesSelected(Slice(files, MaxFiles), Slice(rnds, MaxFiles))
    ELSE /\ refresh' = 0
         /\ removed' = {}
         /\ UNCHANGED <<uploadQueue, tasks, now>>

\* FileUpload.handleDrop, disabled being the prop of the last render
HandleDrop(files, rnds) ==
    IF ~Disabled(rendered) /\ Len(Slice(files, MaxFiles)) > 0
    THEN HandleFilesSelected(Slice(files, MaxFiles), Slice(rnds, MaxFiles))
    ELSE /\ refresh' = 0
         /\ removed' = {}
         /\ UNCHANGED <<uploadQueue, tasks, now>>

\* FileUpload.handleFileChange
HandleFileChange(files, rnds) ==
    IF Len(Slice(files, MaxFiles)) > 0
    THEN HandleFilesSelected(Slice(files, MaxFiles), Slice(rnds, MaxFiles))
    ELSE /\ refresh' = 0
         /\ removed' = {}
         /\ UNCHANGED <<uploadQueue, tasks, now>>

HandleUploadItem(id) ==
    LET k == FindIndex(rendered, id)
    IN  /\ IF k = 0 THEN UNCHANGED <<uploadQueue, tasks>> ELSE UploadFile(rendered[k])
        /\ refresh' = 0
        /\ removed' = {}
        /\ UNCHANGED now

HandleUpdateItem(id, updates) ==
    /\ SetUploadQueue(MapUpdate(uploadQueue, id, updates))
    /\ refresh' = 0
    /\ removed' = {}
    /\ UNCHANGED <<tasks, now>>

HandleRemoveFromQueue(id) ==
    /\ SetUploadQueue(FilterOut(uploadQueue, id))
    /\ refresh' = 0
    /\ removed' = { uploadQueue[k].status : k \in { j \in DOMAIN uploadQueue : uploadQueue[j].id = id } }
    /\ UNCHANGED <<tasks, now>>

\* React renders: closures created from now on see the latest state
Render ==
    /\ lag > 0
    /\ rendered' = uploadQueue
    /\ lag' = 0
    /\ refresh' = 0
    /\ removed' = {}
    /\ UNCHANGED <<uploadQueue, tasks, now>>

\* time passes
Tick(ms) ==
    /\ now + ms <= MaxNow
    /\ now' = now + ms
    /\ refresh' = 0
    /\ removed' = {}
    /\ UNCHANGED <<uploadQueue, tasks>>

-----------------------------------------------------------------------------
(* Specifications *)

KnownIds == Ids(uploadQueue) \cup Ids(rendered)
TaskIds  == DOMAIN tasks

\* the user's and the environment's steps, within the bounds given
Select(maxItems, fileSet) ==
    \E files \in FileBatches(fileSet) : \E rnds \in [DOMAIN files -> RandomSuffixes] :
        /\ Len(uploadQueue) + Len(files) <= maxItems
        /\ HandleFilesSelected(files, rnds)
\* files dropped on the zone, whatever its state
Drop ==
    \E n \in DropSizes : \E rnds \in RandomRuns(n) :
        /\ Len(uploadQueue) + Len(Slice(Selection(n), MaxFiles)) <= MaxQueue
        /\ HandleDrop(Selection(n), rnds)
\* files chosen in the file dialog: a disabled input opens none
Pick ==
    \E n \in DropSizes : \E rnds \in RandomRuns(n) :
        /\ ~Disabled(rendered)
        /\ Len(uploadQueue) + Len(Slice(Selection(n), MaxFiles)) <= MaxQueue
        /\ HandleFileChange(Selection(n), rnds)
Update == \E id \in KnownIds : \E updates \in Partials : HandleUpdateItem(id, updates)
Dispatch(maxTasks) ==
    \E id \in KnownIds :
        /\ FreeSlot <= maxTasks
        /\ HandleUploadItem(id)
Remove == \E id \in KnownIds : HandleRemoveFromQueue(id)
\* an edit addressed to an id that no item has
UpdateUnknown == \E updates \in Partials : HandleUpdateItem(GhostId, updates)
\* time passes while a watcher waits
Wait(ms) ==
    /\ \E t \in DOMAIN tasks : tasks[t].pc \in {"poll", "sleep"}
    /\ Tick(ms)
\* time passes until the timer of a waiting pipeline is due
TimerDue ==
    \E t \in DOMAIN tasks :
        /\ tasks[t].pc = "sleep"
        /\ now < tasks[t].wakeAt
        /\ now' = tasks[t].wakeAt
        /\ refresh' = 0
        /\ removed' = {}
        /\ UNCHANGED <<uploadQueue, tasks>>
\* a dispatch made before the clock has moved
EarlyDispatch(maxTasks) == now = 0 /\ Dispatch(maxTasks)
\* the dispatch of an item that is still Pending (the Upload button is shown)
FirstDispatch(maxTasks) ==
    \E id \in Ids(rendered) :
        /\ FreeSlot <= maxTasks
        /\ \A k \in DOMAIN uploadQueue :
              uploadQueue[k].id = id => uploadQueue[k].status = "pending"
        /\ HandleUploadItem(id)
InitUploadDone == \E t \in TaskIds : \E outcome \in ApiOutcomes : AfterInitUpload(t, outcome)
UploadToS3Done(outcomes) ==
    \E t \in TaskIds : \E outcome \in outcomes : AfterUploadToS3(t, outcome)
ConfirmUploadDone ==
    \E t \in TaskIds : \E outcome \in ApiOutcomes : AfterConfirmUpload(t, outcome)
GetMemoryUnitsDone ==
    \E t \in TaskIds : \E outcome \in PollOutcomes : AfterGetMemoryUnits(t, outcome)
SetTimeoutDone == \E t \in TaskIds : AfterSetTimeout(t)
UpdateMemoryUnitsDone ==
    \E t \in TaskIds : \E outcome \in ApiOutcomes : AfterUpdateMemoryUnits(t, outcome)

\* a poll request never gets an answer: fetch rejects
GetMemoryUnitsLost == \E t \in TaskIds : AfterGetMemoryUnits(t, "network")

\* the patch request never gets an answer: fetch rejects
UpdateMemoryUnitsLost == \E t \in TaskIds : AfterUpdateMemoryUnits(t, "network")

\* the step is rendered before the next one: closures see the latest state
Rendered == rendered' = uploadQueue' /\ lag' = 0
\* the step is not rendered yet
Unrendered == lag < MaxLag /\ UNCHANGED rendered /\ lag' = lag + 1

\* a pending item with its required fields supplied
ReadyItem(rnd) ==
    MergeItem(NewItem(PngFile, 0, rnd),
              [title |-> <<" ", "t">>, location |-> <<"l">>, date |-> <<"d", " ">>])

(* Spec: the handlers called in any order on any item, one pipeline in     *)
(* flight at a time, every step rendered before the next.                  *)
Init ==
    /\ uploadQueue = <<>>
    /\ rendered = <<>>
    /\ lag = 0
    /\ tasks = <<>>
    /\ now = 0
    /\ refresh = 0
    /\ removed = {}

Next ==
    \/ Select(MaxItems, {PngFile}) /\ Rendered
    \/ Update /\ Rendered
    \/ Dispatch(MaxTasks) /\ Rendered
    \/ Remove /\ Rendered
    \/ Wait(CoarseTickMs) /\ Rendered
    \/ InitUploadDone /\ Rendered
    \/ UploadToS3Done(PutOutcomes) /\ Rendered
    \/ ConfirmUploadDone /\ Rendered
    \/ GetMemoryUnitsDone /\ Rendered
    \/ SetTimeoutDone /\ Rendered
    \/ UpdateMemoryUnitsDone /\ Rendered
    \/ UpdateMemoryUnitsLost /\ Rendered

Spec == Init /\ [][Next]_vars

\* a pending item whose location was left blank
BlankItem(rnd) == MergeItem(ReadyItem(rnd), [location |-> <<" ">>])

(* SpecConc: two items, the first with its fields supplied, dispatched in *)
(* any order, their pipelines running concurrently, renders lagging       *)
(* behind the state updates.                                              *)
InitConc ==
    /\ uploadQueue \in { <<ReadyItem("r1"), ReadyItem("r2")>>,
                         <<ReadyItem("r1"), BlankItem("r2")>> }
    /\ rendered = uploadQueue
    /\ lag = 0
    /\ tasks = <<>>
    /\ now = 0
    /\ refresh = 0
    /\ removed = {}

NextConc ==
    \/ Dispatch(ConcTasks) /\ Unrendered
    \/ Render
    \/ Wait(CoarseTickMs) /\ Unrendered
    \/ InitUploadDone /\ Unrendered
    \/ UploadToS3Done(ApiOutcomes) /\ Unrendered
    \/ ConfirmUploadDone /\ Unrendered
    \/ GetMemoryUnitsDone /\ Unrendered
    \/ SetTimeoutDone /\ Unrendered
    \/ UpdateMemoryUnitsDone /\ Unrendered

SpecConc == InitConc /\ [][NextConc]_vars

(* SpecPoll: one item with its fields supplied, dispatched; the clock      *)
(* advances by one poll interval at a time.                                *)
InitPoll ==
    /\ uploadQueue = <<ReadyItem("r1")>>
    /\ rendered = uploadQueue
    /\ lag = 0
    /\ tasks = <<>>
    /\ now = 0
    /\ refresh = 0
    /\ removed = {}

NextPoll ==
    \/ Dispatch(MaxTasks) /\ Rendered
    \/ Wait(FineTickMs) /\ Rendered
    \/ InitUploadDone /\ Rendered
    \/ UploadToS3Done(ApiOutcomes) /\ Rendered
    \/ ConfirmUploadDone /\ Rendered
    \/ GetMemoryUnitsDone /\ Rendered
    \/ GetMemoryUnitsLost /\ Rendered
    \/ SetTimeoutDone /\ Rendered
    \/ UpdateMemoryUnitsDone /\ Rendered

SpecPoll == InitPoll /\ [][NextPoll]_vars

(* SpecLive: one item with its fields supplied, dispatched while the       *)
(* clock is at 0; every network call returns or fails, every timer fires   *)
(* and time passes until a pending timer is due.                           *)
NextLive ==
    \/ EarlyDispatch(MaxTasks) /\ Rendered
    \/ Wait(FineTickMs) /\ Rendered
    \/ TimerDue /\ Rendered
    \/ InitUploadDone /\ Rendered
    \/ UploadToS3Done(ApiOutcomes) /\ Rendered
    \/ ConfirmUploadDone /\ Rendered
    \/ GetMemoryUnitsDone /\ Rendered
    \/ SetTimeoutDone /\ Rendered
    \/ UpdateMemoryUnitsDone /\ Rendered

Fairness ==
    /\ WF_vars(TimerDue /\ Rendered)
    /\ WF_vars(InitUploadDone /\ Rendered)
    /\ WF_vars(UploadToS3Done(ApiOutcomes) /\ Rendered)
    /\ WF_vars(ConfirmUploadDone /\ Rendered)
    /\ WF_vars(GetMemoryUnitsDone /\ Rendered)
    /\ WF_vars(SetTimeoutDone /\ Rendered)
    /\ WF_vars(UpdateMemoryUnitsDone /\ Rendered)

SpecLive == InitPoll /\ [][NextLive]_vars /\ Fairness

(* SpecEdit: two items with their fields supplied, each dispatched once    *)
(* and edited at any time, their pipelines running concurrently, renders   *)
(* lagging behind the state updates.                                       *)
InitEdit ==
    /\ uploadQueue = <<ReadyItem("r1"), ReadyItem("r2")>>
    /\ rendered = uploadQueue
    /\ lag = 0
    /\ tasks = <<>>
    /\ now = 0
    /\ refresh = 0
    /\ removed = {}

NextEdit ==
    \/ FirstDispatch(ConcTasks) /\ Unrendered
    \/ Update /\ Unrendered
    \/ Render
    \/ Wait(CoarseTickMs) /\ Unrendered
    \/ InitUploadDone /\ Unrendered
    \/ UploadToS3Done(ApiOutcomes) /\ Unrendered
    \/ ConfirmUploadDone /\ Unrendered
    \/ GetMemoryUnitsDone /\ Unrendered
    \/ SetTimeoutDone /\ Unrendered
    \/ UpdateMemoryUnitsDone /\ Unrendered

SpecEdit == InitEdit /\ [][NextEdit]_vars

\* the descriptions a user may have typed: none, whitespace, or text
Descriptions == {Undefined, <<" ">>, <<"x", " ">>}

(* SpecPatch: one item with its required fields supplied and any           *)
(* description, dispatched and edited at any time.                         *)
InitPatch ==
    /\ \E d \in Descriptions :
          uploadQueue = <<MergeItem(ReadyItem("r1"), [description |-> d])>>
    /\ rendered = uploadQueue
    /\ lag = 0
    /\ tasks = <<>>
    /\ now = 0
    /\ refresh = 0
    /\ removed = {}

NextPatch ==
    \/ Dispatch(MaxTasks) /\ Rendered
    \/ Update /\ Rendered
    \/ Wait(CoarseTickMs) /\ Rendered
    \/ InitUploadDone /\ Rendered
    \/ UploadToS3Done(ApiOutcomes) /\ Rendered
    \/ ConfirmUploadDone /\ Rendered
    \/ GetMemoryUnitsDone /\ Rendered
    \/ SetTimeoutDone /\ Rendered
    \/ UpdateMemoryUnitsDone /\ Rendered

SpecPatch == InitPatch /\ [][NextPatch]_vars

(* SpecEnq: files of either name selected, edited and removed at any time. *)
NextEnq ==
    \/ Select(MaxItems, Files) /\ Rendered
    \/ Update /\ Rendered
    \/ UpdateUnknown /\ Rendered
    \/ Remove /\ Rendered
    \/ Tick(CoarseTickMs) /\ Rendered

SpecEnq == Init /\ [][NextEnq]_vars

(* SpecDrop: one item with its fields supplied; selections of up to one    *)
(* file more than the zone accepts are dropped or picked at any time.      *)
NextDrop ==
    \/ Drop /\ Rendered
    \/ Pick /\ Rendered
    \/ Dispatch(MaxTasks) /\ Rendered
    \/ Wait(CoarseTickMs) /\ Rendered
    \/ InitUploadDone /\ Rendered
    \/ UploadToS3Done(ApiOutcomes) /\ Rendered
    \/ ConfirmUploadDone /\ Rendered
    \/ GetMemoryUnitsDone /\ Rendered
    \/ SetTimeoutDone /\ Rendered
    \/ UpdateMemoryUnitsDone /\ Rendered

SpecDrop == InitPoll /\ [][NextDrop]_vars

-----------------------------------------------------------------------------
(* Properties *)

Terminal(status) == status \in {"complete", "error"}

Rank(status) ==
    CASE status = "pending" -> 0
      [] status = "uploading" -> 1
      [] status = "processing" -> 2
      [] OTHER -> 3

\* the positions of the items with this id
At(q, id) == { k \in DOMAIN q : q[k].id = id }

\* a field that is absent, empty, or made of whitespace only
Missing(value) == value = Undefined \/ \A i \in DOMAIN value : value[i] = " "

MetadataOf(item) == <<item.title, item.date, item.location, item.description>>

\* C1: in every step that removes nothing, the status of every item either
\* stays or moves forward in Pending -> Uploading -> Processing ->
\* {Complete, Error}, and a Complete or Error item keeps its status.
C1_StatusMovesForward ==
    [][Len(uploadQueue') >= Len(uploadQueue) =>
        \A k \in DOMAIN uploadQueue :
            /\ Rank(uploadQueue[k].status) <= Rank(uploadQueue'[k].status)
            /\ Terminal(uploadQueue[k].status) =>
                   uploadQueue'[k].status = uploadQueue[k].status]_vars

\* C2: a dispatch of an item whose title, date or location is missing or
\* whitespace-only starts no pipeline and issues no network call, and puts
\* the item in Error with the required-fields message, its progress and
\* metadata (and every other item) as they were.
C2_InvalidDispatchFailsLocally ==
    [][\A id \in KnownIds :
        LET k == FindIndex(rendered, id)
        IN  (/\ HandleUploadItem(id)
             /\ k # 0
             /\ \/ Missing(rendered[k].title)
                \/ Missing(rendered[k].date)
                \/ Missing(rendered[k].location))
            => /\ tasks' = tasks
               /\ Len(uploadQueue') = Len(uploadQueue)
               /\ \A j \in DOMAIN uploadQueue :
                    IF uploadQueue[j].id = id
                    THEN uploadQueue'[j] =
                            [uploadQueue[j] EXCEPT !.status = "error",
                                                   !.error = RequiredMsg]
                    ELSE uploadQueue'[j] = uploadQueue[j]]_vars

\* C2 witness: an item with a title and a date whose location is whitespace
\* only has been dispatched: it is in Error with the message, progress 0.
C2_Witness ==
    \E k \in DOMAIN uploadQueue :
        /\ uploadQueue[k].status = "error"
        /\ uploadQueue[k].error = RequiredMsg
        /\ uploadQueue[k].location = <<" ">>
        /\ uploadQueue[k].title = <<" ", "t">>
        /\ uploadQueue[k].progress = 0
        /\ tasks = <<>>

\* C3: no two uploadFile invocations are in flight for the same item id.
C3_OnePipelinePerItem ==
    \A t, u \in DOMAIN tasks :
        (Live(t) /\ Live(u) /\ t # u) => tasks[t].id # tasks[u].id

\* C4: a dispatch of an item that is Complete changes neither the queue nor
\* the set of pipelines (no network call).
C4_DispatchOnCompleteIsNoOp ==
    [][\A id \in KnownIds :
        (/\ HandleUploadItem(id)
         /\ \E k \in At(uploadQueue, id) : uploadQueue[k].status = "complete")
        => UNCHANGED <<uploadQueue, tasks>>]_vars

\* C5: a remove of an item that is Pending, Uploading or Processing leaves
\* the queue as it was.
C5_RemoveOfActiveItemRejected ==
    [][\A id \in KnownIds :
        (/\ HandleRemoveFromQueue(id)
         /\ \E k \in At(uploadQueue, id) : ~Terminal(uploadQueue[k].status))
        => UNCHANGED uploadQueue]_vars

C7_MetadataFrozenAfterPending ==
    [][Len(uploadQueue') >= Len(uploadQueue) =>
        \A k \in DOMAIN uploadQueue :
            uploadQueue[k].status # "pending" =>
                MetadataOf(uploadQueue'[k]) = MetadataOf(uploadQueue[k])]_vars

PollsOf(task) == Cardinality({ i \in DOMAIN task.calls : task.calls[i] = "poll" })

\* ceil(deadline / interval)
MaxPolls == (DeadlineMs + IntervalMs - 1) \div IntervalMs

\* C8: whenever a pipeline starts a get_units query, less than the deadline
\* has elapsed since its watcher started, and the queries it has started
\* number at most ceil(deadline / interval).
C8_PollsWithinDeadline ==
    [][\A t \in DOMAIN tasks' :
        (IF t \in DOMAIN tasks
         THEN PollsOf(tasks'[t]) > PollsOf(tasks[t])
         ELSE PollsOf(tasks'[t]) > 0)
        => /\ now' - (tasks'[t].deadline - DeadlineMs) < DeadlineMs
           /\ PollsOf(tasks'[t]) <= MaxPolls]_vars

\* C8 witness: a pipeline has started ceil(deadline / interval) queries.
C8_Witness == \E t \in DOMAIN tasks : PollsOf(tasks[t]) = MaxPolls

\* C9 (as claimed): the ids of the items in the queue are pairwise distinct.
C9_IdsPairwiseDistinct ==
    \A i, j \in DOMAIN uploadQueue :
        i # j => uploadQueue[i].id # uploadQueue[j].id

\* C9 (amended): a selection of N files appends N items, each Pending with
\* progress 0 and no error, and changes no item already queued; a new item's
\* id differs from the id of every item of another file name, of every item
\* created at an earlier time, and of every item of the same selection drawn
\* with another random suffix.
C9_EnqueueAppendsPendingItems ==
    [][\A files \in FileBatches(Files) : \A rnds \in [DOMAIN files -> RandomSuffixes] :
        HandleFilesSelected(files, rnds) =>
          LET n == Len(uploadQueue) IN
          /\ Len(uploadQueue') = n + Len(files)
          /\ \A j \in DOMAIN uploadQueue : uploadQueue'[j] = uploadQueue[j]
          /\ \A k \in DOMAIN files :
                LET new == uploadQueue'[n + k] IN
                /\ new.file = files[k]
                /\ new.status = "pending" /\ new.progress = 0 /\ new.error = NoError
                /\ MetadataOf(new) = <<Undefined, Undefined, Undefined, Undefined>>
                /\ \A j \in DOMAIN uploadQueue :
                      (uploadQueue[j].file.name # files[k].name \/ uploadQueue[j].id[2] < now)
                          => uploadQueue[j].id # new.id
                /\ \A l \in DOMAIN files :
                      (files[l].name # files[k].name \/ rnds[l] # rnds[k])
                          => uploadQueue'[n + l].id # new.id]_vars

\* C9 witness: two files of the same name were selected together and are in
\* the queue, both Pending with progress 0, under different ids.
C9_Witness ==
    /\ Len(uploadQueue) = 2
    /\ uploadQueue[1].file = uploadQueue[2].file
    /\ uploadQueue[1].id # uploadQueue[2].id
    /\ \A k \in DOMAIN uploadQueue :
          /\ uploadQueue[k].status = "pending"
          /\ uploadQueue[k].progress = 0
          /\ uploadQueue[k].error = NoError
          /\ uploadQueue[k].id[2] = now

\* C10: when the metadata patch of a pipeline succeeds (after init, transfer,
\* confirm and a poll with units), its item is Complete with progress 100
\* and no error.
C10_SuccessEndsComplete ==
    [][\A t \in DOMAIN tasks :
        AfterUpdateMemoryUnits(t, "ok") =>
            \A k \in At(uploadQueue', tasks[t].id) :
                /\ uploadQueue'[k].status = "complete"
                /\ uploadQueue'[k].progress = 100
                /\ uploadQueue'[k].error = NoError]_vars

\* C11: when a pipeline whose init, transfer and confirm succeeded finds,
\* after a wait, that the deadline has passed (every poll so far returned an
\* empty list), it returns having issued no patch call, and its item is in
\* Error with the timeout message; no poll query starts once the deadline
\* has passed.
C11_TimeoutEndsInError ==
    [][\A t \in DOMAIN tasks :
        /\ (AfterSetTimeout(t) /\ now >= tasks[t].deadline)
            => /\ tasks'[t] = Returned
               /\ \A i \in DOMAIN tasks[t].calls : tasks[t].calls[i] # "patch"
               /\ \A k \in At(uploadQueue', tasks[t].id) :
                    /\ uploadQueue'[k].status = "error"
                    /\ uploadQueue'[k].error = TimeoutMsg
        /\ (Live(t) /\ now >= tasks[t].deadline /\ tasks[t].deadline > 0)
            => (t \in DOMAIN tasks' /\ PollsOf(tasks'[t]) <= PollsOf(tasks[t]))]_vars

\* C11 witness: the deadline has passed, no pipeline is in flight and the
\* item is in Error with the timeout message at progress 90.
C11_Witness ==
    /\ now >= DeadlineMs
    /\ \A t \in DOMAIN tasks : ~Live(t)
    /\ \E k \in DOMAIN uploadQueue :
          /\ uploadQueue[k].status = "error"
          /\ uploadQueue[k].error = TimeoutMsg
          /\ uploadQueue[k].progress = 90

\* C12: when the init, transfer or confirm call of a pipeline fails, the
\* pipeline returns without issuing another call and its item is in Error
\* with a non-empty message; a pipeline whose transfer failed has issued no
\* confirm call.
C12_StepFailureStopsPipeline ==
    [][\A t \in DOMAIN tasks : \A outcome \in PutOutcomes \ {"ok"} :
        (\/ AfterInitUpload(t, outcome)
         \/ AfterUploadToS3(t, outcome)
         \/ AfterConfirmUpload(t, outcome))
        => /\ tasks'[t] = Returned
           /\ \A u \in DOMAIN tasks : u # t => tasks'[u] = tasks[u]
           /\ tasks[t].pc = "put" =>
                \A i \in DOMAIN tasks[t].calls : tasks[t].calls[i] \in {"init", "put"}
           /\ \A k \in At(uploadQueue', tasks[t].id) :
                /\ uploadQueue'[k].status = "error"
                /\ uploadQueue'[k].error \notin {NoError, ""}]_vars

\* C12 witness: a transfer failed with a network error: the item is in Error
\* with the fetch message at progress 30 and no pipeline is in flight.
C12_Witness ==
    /\ \A t \in DOMAIN tasks : ~Live(t)
    /\ \E k \in DOMAIN uploadQueue :
          /\ uploadQueue[k].status = "error"
          /\ uploadQueue[k].error = FetchMsg
          /\ uploadQueue[k].progress = 30

\* C13: an item has an error message exactly when its status is Error.
C13_ErrorIffStatusError ==
    \A k \in DOMAIN uploadQueue :
        (uploadQueue[k].error # NoError) <=> (uploadQueue[k].status = "error")

\* C14: in every step that removes nothing, the progress of an item that is
\* Pending, Uploading or Processing does not decrease.
C14_ProgressNeverDecreases ==
    [][Len(uploadQueue') >= Len(uploadQueue) =>
        \A k \in DOMAIN uploadQueue :
            ~Terminal(uploadQueue[k].status) =>
                uploadQueue'[k].progress >= uploadQueue[k].progress]_vars

\* the step in which pipeline t fails: a call of it throws, or its polling
\* deadline is found passed
FailureOf(t) ==
    \/ \E outcome \in PutOutcomes \ {"ok"} :
          \/ AfterInitUpload(t, outcome)
          \/ AfterUploadToS3(t, outcome)
          \/ AfterConfirmUpload(t, outcome)
          \/ AfterGetMemoryUnits(t, outcome)
          \/ AfterUpdateMemoryUnits(t, outcome)
    \/ AfterSetTimeout(t) /\ ~DeadlineOpen(now, tasks[t].deadline)

\* the items of every other id, and the pipelines in the other slots, are
\* as they were
OthersUntouched(id, slots) ==
    /\ Len(uploadQueue') = Len(uploadQueue)
    /\ \A k \in DOMAIN uploadQueue :
          uploadQueue[k].id # id => uploadQueue'[k] = uploadQueue[k]
    /\ DOMAIN tasks' = DOMAIN tasks
    /\ \A u \in DOMAIN tasks \ slots : tasks'[u] = tasks[u]

C16_DispatchedItemSettles ==
    (uploadQueue[1].status \in {"uploading", "processing"})
        ~> Terminal(uploadQueue[1].status)

\* C16 witness: every poll returned an empty list, the deadline passed and
\* the item left Processing for Error.
C16_Witness ==
    /\ uploadQueue[1].status = "error"
    /\ uploadQueue[1].error = TimeoutMsg
    /\ now > DeadlineMs
    /\ \A t \in DOMAIN tasks : ~Live(t)

\* C17: a step signals the asset-list refresh at most once, and only when a
\* pipeline returns from its patch call with its item (if still queued)
\* Complete at progress 100; every step in which an item becomes Complete
\* signals it, and no step in which an item is put in Error does.
C17_RefreshOnlyOnComplete ==
    [][/\ refresh' \in {0, 1}
       /\ refresh' = 1 =>
            \E t \in DOMAIN tasks :
                /\ Live(t) /\ tasks[t].pc = "patch"
                /\ tasks'[t] = Returned
                /\ \A k \in At(uploadQueue', tasks[t].id) :
                      /\ uploadQueue'[k].status = "complete"
                      /\ uploadQueue'[k].progress = 100
       /\ Len(uploadQueue') = Len(uploadQueue) =>
            \A k \in DOMAIN uploadQueue :
                /\ (uploadQueue[k].status # "complete" /\ uploadQueue'[k].status = "complete")
                      => refresh' = 1
                /\ (uploadQueue'[k].status = "error" /\ uploadQueue'[k] # uploadQueue[k])
                      => refresh' = 0]_vars

\* C17 witness: the last step completed an item and signalled the refresh.
C17_Witness ==
    /\ refresh = 1
    /\ \E k \in DOMAIN uploadQueue :
          uploadQueue[k].status = "complete" /\ uploadQueue[k].progress = 100

\* init, transfer, confirm, one or more polls, then at most one patch
InOrder(calls) ==
    \A i \in DOMAIN calls :
        /\ i = 1 => calls[i] = "init"
        /\ i = 2 => calls[i] = "put"
        /\ i = 3 => calls[i] = "confirm"
        /\ i = 4 => calls[i] = "poll"
        /\ i > 4 => \/ calls[i] = "poll"
                    \/ calls[i] = "patch" /\ i = Len(calls)
        /\ i > 1 /\ calls[i] = "poll" => calls[i - 1] \in {"confirm", "poll"}

\* the call a pipeline waits for is the last one it issued (between two
\* polls it waits for its timer)
AwaitsLastCall(task) ==
    LET last == task.calls[Len(task.calls)]
    IN  task.pc = last \/ (task.pc = "sleep" /\ last = "poll")

\* C18: the calls a pipeline has issued are, in order, init, transfer,
\* confirm, one or more polls and then at most one patch; a pipeline issues
\* its next call only in the step in which the call it was waiting for
\* returns (or its timer fires), one call at a time; this holds for each
\* pipeline under every interleaving of the pipelines' steps.
C18_CallsInOrder ==
    [][\A t \in DOMAIN tasks' :
        Live(t)' =>
            /\ InOrder(tasks'[t].calls)
            /\ AwaitsLastCall(tasks'[t])
            /\ (Live(t) /\ tasks'[t].calls # tasks[t].calls) =>
                  /\ \E c \in {"put", "confirm", "poll", "patch"} :
                        tasks'[t].calls = Append(tasks[t].calls, c)
                  /\ AwaitsLastCall(tasks[t])
                  /\ tasks'[t].pc = "patch" => tasks[t].pc = "poll"
                  /\ \A u \in DOMAIN tasks : u # t => tasks'[u] = tasks[u]]_vars

\* C18 witness: one pipeline has issued init, transfer, confirm, a poll and
\* the patch while the pipeline of the other item has issued init and the
\* transfer only.
C18_Witness ==
    \E t, u \in DOMAIN tasks :
        /\ Live(t) /\ Live(u)
        /\ tasks[t].id # tasks[u].id
        /\ tasks[t].calls = <<"init", "put", "confirm", "poll", "patch">>
        /\ tasks[u].calls = <<"init", "put">>

\* the status and progress a pipeline has last reported, by the call it
\* waits for
Reported(task) ==
    CASE task.pc = "init"    -> <<"uploading", 10>>
      [] task.pc = "put"     -> <<"uploading", 30>>
      [] task.pc = "confirm" -> <<"uploading", 70>>
      [] OTHER               -> <<"processing", 90>>

\* C19: with each item dispatched once, pipelines running concurrently and
\* items edited in between, after every step the item of each pipeline in
\* flight holds the status and progress that pipeline last reported, and an
\* item whose pipeline has returned holds the terminal status it reported;
\* a report changes no item of another id, and an edit changes the fields
\* it names on the items of its id and nothing else.
C19_NoUpdateLost ==
    [][/\ Len(uploadQueue') = Len(uploadQueue)
       /\ \A t \in DOMAIN tasks' :
            Live(t)' =>
                \A k \in At(uploadQueue', tasks'[t].id) :
                    <<uploadQueue'[k].status, uploadQueue'[k].progress>> = Reported(tasks'[t])
       /\ \A k \in DOMAIN uploadQueue' :
            (\A t \in DOMAIN tasks' : Live(t)' => tasks'[t].id # uploadQueue'[k].id)
                => uploadQueue'[k].status \in {"pending", "complete", "error"}
       /\ \A t \in DOMAIN tasks :
            (Live(t) /\ tasks'[t] # tasks[t]) =>
                \A k \in DOMAIN uploadQueue :
                    uploadQueue[k].id # tasks[t].id => uploadQueue'[k] = uploadQueue[k]
       /\ \A id \in KnownIds : \A updates \in Partials :
            HandleUpdateItem(id, updates) =>
                \A k \in DOMAIN uploadQueue :
                    /\ uploadQueue[k].id # id => uploadQueue'[k] = uploadQueue[k]
                    /\ \A f \in DOMAIN uploadQueue[k] \ DOMAIN updates :
                          uploadQueue'[k][f] = uploadQueue[k][f]
                    /\ uploadQueue[k].id = id =>
                          \A f \in DOMAIN updates : uploadQueue'[k][f] = updates[f]]_vars

\* C19 witness: the pipelines of both items are in flight at different
\* calls, the second item was edited after its dispatch, and the render is
\* two steps behind.
C19_Witness ==
    /\ lag = MaxLag
    /\ \E t, u \in DOMAIN tasks :
          /\ Live(t) /\ tasks[t].id = uploadQueue[1].id /\ tasks[t].pc = "poll"
          /\ Live(u) /\ tasks[u].id = uploadQueue[2].id /\ tasks[u].pc = "put"
    /\ <<uploadQueue[1].status, uploadQueue[1].progress>> = <<"processing", 90>>
    /\ <<uploadQueue[2].status, uploadQueue[2].progress>> = <<"uploading", 30>>
    /\ uploadQueue[2].location = <<" ">>
    /\ rendered # uploadQueue

\* C20: a step of a pipeline whose item is no longer in the queue leaves the
\* queue as it is: the id is not put back and no other item changes.
C20_ReportOnRemovedItemIsNoOp ==
    [][\A t \in DOMAIN tasks :
        (/\ Live(t)
         /\ tasks'[t] # tasks[t]
         /\ At(uploadQueue, tasks[t].id) = {})
        => uploadQueue' = uploadQueue]_vars

\* C20 witness: a pipeline has just reported Complete and signalled the
\* refresh, the queue holds an item, and no item is Complete: the
\* pipeline's own item had been removed.
C20_Witness ==
    /\ refresh = 1
    /\ uploadQueue # <<>>
    /\ \A k \in DOMAIN uploadQueue : uploadQueue[k].status # "complete"

\* C21: an update addressed to an id that no item has leaves the queue as it
\* is; an update addressed to a queued id sets the fields it names on the
\* item with that id (on each of them, should two items share the id),
\* keeps every other field of it, and keeps every other item and the order.
C21_UpdateChangesNamedFieldsOnly ==
    [][\A id \in KnownIds \cup {GhostId} : \A updates \in Partials :
        HandleUpdateItem(id, updates) =>
            /\ At(uploadQueue, id) = {} => uploadQueue' = uploadQueue
            /\ Len(uploadQueue') = Len(uploadQueue)
            /\ \A k \in DOMAIN uploadQueue :
                  IF uploadQueue[k].id = id
                  THEN /\ \A f \in DOMAIN updates : uploadQueue'[k][f] = updates[f]
                       /\ \A f \in DOMAIN uploadQueue[k] \ DOMAIN updates :
                             uploadQueue'[k][f] = uploadQueue[k][f]
                  ELSE uploadQueue'[k] = uploadQueue[k]]_vars

\* C21 witness: of two items with different ids the first was given title,
\* location and date and then a blank location; it kept the title and the
\* date, and the second item is as it was enqueued.
C21_Witness ==
    /\ Len(uploadQueue) = 2
    /\ uploadQueue[1].id # uploadQueue[2].id
    /\ uploadQueue[1].title = <<" ", "t">>
    /\ uploadQueue[1].date = <<"d", " ">>
    /\ uploadQueue[1].location = <<" ">>
    /\ MetadataOf(uploadQueue[2]) = <<Undefined, Undefined, Undefined, Undefined>>
    /\ uploadQueue[2].status = "pending"

\* C22 (as claimed): when the patch call of a pipeline fails, its item is
\* Complete with progress 100.
C22_PatchFailureEndsComplete ==
    [][\A t \in DOMAIN tasks : \A outcome \in PutOutcomes \ {"ok"} :
        AfterUpdateMemoryUnits(t, outcome) =>
            \A k \in At(uploadQueue', tasks[t].id) :
                /\ uploadQueue'[k].status = "complete"
                /\ uploadQueue'[k].progress = 100]_vars

\* C22 (amended): when the patch call of a pipeline fails, the pipeline
\* returns, its item is in Error with the message of the failure, its
\* progress as it was (90 unless another dispatch changed it), and no
\* refresh is signalled.
C22_PatchFailureEndsInError ==
    [][\A t \in DOMAIN tasks : \A outcome \in PutOutcomes \ {"ok"} :
        AfterUpdateMemoryUnits(t, outcome) =>
            /\ tasks'[t] = Returned
            /\ refresh' = 0
            /\ Len(uploadQueue') = Len(uploadQueue)
            /\ \A k \in DOMAIN uploadQueue :
                  IF uploadQueue[k].id = tasks[t].id
                  THEN uploadQueue'[k] =
                          [uploadQueue[k] EXCEPT
                              !.status = "error",
                              !.error = IF outcome = "network" THEN FetchMsg ELSE ApiMsg]
                  ELSE uploadQueue'[k] = uploadQueue[k]]_vars

\* C22 witness: the patch request was lost: the item is in Error with the
\* fetch message at progress 90 and no pipeline is in flight.
C22_Witness ==
    /\ \A t \in DOMAIN tasks : ~Live(t)
    /\ \E k \in DOMAIN uploadQueue :
          /\ uploadQueue[k].status = "error"
          /\ uploadQueue[k].error = FetchMsg
          /\ uploadQueue[k].progress = 90

\* the messages of a failed init, transfer, confirm, poll or patch call
TransportMsgs == {ApiMsg, S3Msg, FetchMsg}

\* C23: a dispatch of an item that is in Error with the message of a failed
\* call (its required fields in place) starts a pipeline afresh: a new
\* invocation that has issued the init call and nothing else, whatever the
\* progress the failed pipeline had reached; the pipelines already there are
\* untouched.
C23_RedispatchStartsAtInit ==
    [][\A id \in KnownIds :
        LET k == FindIndex(rendered, id)
        IN  (/\ HandleUploadItem(id)
             /\ k # 0
             /\ rendered[k].status = "error"
             /\ rendered[k].error \in TransportMsgs
             /\ ~ValidationFails(rendered[k]))
            => \E t \in DOMAIN tasks' :
                  /\ t \in DOMAIN tasks => ~Live(t)
                  /\ tasks'[t].id = id
                  /\ tasks'[t].pc = "init"
                  /\ tasks'[t].calls = <<"init">>
                  /\ \A u \in DOMAIN tasks : u # t => tasks'[u] = tasks[u]]_vars

\* C23 witness: an item whose transfer had failed (the S3 message still on
\* it) was dispatched again: it is Uploading at progress 10 and its
\* pipeline waits for init, having issued no other call.
C23_Witness ==
    \E k \in DOMAIN uploadQueue : \E t \in DOMAIN tasks :
        /\ uploadQueue[k].status = "uploading"
        /\ uploadQueue[k].progress = 10
        /\ uploadQueue[k].error = S3Msg
        /\ Live(t) /\ tasks[t].id = uploadQueue[k].id
        /\ tasks[t].calls = <<"init">>

\* C24: a pipeline works on the item as it was when dispatch was invoked,
\* whatever is edited later, and the patch it issues carries that item's
\* trimmed title (not empty), its trimmed location and date each as a list
\* of one non-empty element, and its trimmed description if and only if
\* that is not empty.
C24_PatchCarriesDispatchedMetadata ==
    [][\A t \in DOMAIN tasks' :
        Live(t)' =>
            LET item == tasks'[t].item
                body == tasks'[t].body
            IN  /\ IF t \in DOMAIN tasks /\ Live(t)
                   THEN item = tasks[t].item
                   ELSE \E k \in At(uploadQueue, tasks'[t].id) :
                            item = Snapshot(uploadQueue[k])
                /\ tasks'[t].pc = "patch" =>
                      /\ DOMAIN body \in { {"title", "places", "dates"},
                                           {"title", "places", "dates", "description"} }
                      /\ body.title = Trim(item.title) /\ body.title # <<>>
                      /\ body.places = <<Trim(item.location)>> /\ body.places[1] # <<>>
                      /\ body.dates = <<Trim(item.date)>> /\ body.dates[1] # <<>>
                      /\ "description" \in DOMAIN body <=>
                            (item.description # Undefined /\ Trim(item.description) # <<>>)
                      /\ "description" \in DOMAIN body =>
                            body.description = Trim(item.description)]_vars

\* C24 witness: a patch with a description has been issued for an item
\* dispatched with title " t", location "l" and date "d ", whose location
\* was blanked after the dispatch.
C24_Witness ==
    \E t \in DOMAIN tasks :
        /\ Live(t) /\ tasks[t].pc = "patch"
        /\ "description" \in DOMAIN tasks[t].body
        /\ tasks[t].body.title = <<"t">>
        /\ tasks[t].body.places = << <<"l">> >>
        /\ tasks[t].body.dates = << <<"d">> >>
        /\ tasks[t].body.description = <<"x">>
        /\ \A k \in At(uploadQueue, tasks[t].id) : uploadQueue[k].location = <<" ">>
        /\ At(uploadQueue, tasks[t].id) # {}

\* C25: a step puts an item in Error with the timeout message only when it
\* is the step of a pipeline of that item which has issued init, transfer,
\* confirm and polls only (no patch: no poll returned units) and was
\* waiting between two polls; a failed init, transfer or confirm call puts
\* a message of the call on the item, never the timeout message.
C25_TimeoutMessageOnlyOnTimeout ==
    [][/\ \A k \in DOMAIN uploadQueue' :
            (/\ k \in DOMAIN uploadQueue
             /\ Len(uploadQueue') = Len(uploadQueue)
             /\ <<uploadQueue'[k].status, uploadQueue'[k].error>>
                    # <<uploadQueue[k].status, uploadQueue[k].error>>
             /\ uploadQueue'[k].status = "error"
             /\ uploadQueue'[k].error = TimeoutMsg)
            => \E t \in DOMAIN tasks :
                  /\ Live(t) /\ tasks[t].id = uploadQueue[k].id
                  /\ tasks[t].pc = "sleep" /\ tasks'[t] = Returned
                  /\ now >= tasks[t].deadline
                  /\ Len(tasks[t].calls) >= 4
                  /\ SubSeq(tasks[t].calls, 1, 3) = <<"init", "put", "confirm">>
                  /\ \A i \in 4..Len(tasks[t].calls) : tasks[t].calls[i] = "poll"
       /\ \A t \in DOMAIN tasks :
            (/\ Live(t) /\ tasks[t].pc \in {"init", "put", "confirm"}
             /\ tasks'[t] = Returned)
            => \A k \in At(uploadQueue', tasks[t].id) :
                  /\ uploadQueue'[k].status = "error"
                  /\ uploadQueue'[k].error \in TransportMsgs
                  /\ uploadQueue'[k].error # TimeoutMsg]_vars

\* C25 witness: the clock is at the deadline, the one item is in Error with
\* the timeout message and the render shows it.
C25_Witness ==
    /\ now = DeadlineMs
    /\ Len(uploadQueue) = 1
    /\ uploadQueue[1].status = "error"
    /\ uploadQueue[1].error = TimeoutMsg
    /\ rendered = uploadQueue
    /\ tasks # <<>>

\* C26: when a poll query of a pipeline fails, the pipeline returns having
\* issued no patch, so that it starts no further poll; its item is in Error
\* with the message of the failure, which is not the timeout message, and
\* no refresh is signalled.
C26_PollFailureStopsPipeline ==
    [][\A t \in DOMAIN tasks : \A outcome \in {"http", "network"} :
        AfterGetMemoryUnits(t, outcome) =>
            /\ tasks'[t] = Returned
            /\ \A i \in DOMAIN tasks[t].calls : tasks[t].calls[i] # "patch"
            /\ refresh' = 0
            /\ \A k \in At(uploadQueue', tasks[t].id) :
                  /\ uploadQueue'[k].status = "error"
                  /\ uploadQueue'[k].error = (IF outcome = "http" THEN ApiMsg ELSE FetchMsg)
                  /\ uploadQueue'[k].error # TimeoutMsg]_vars

\* C26 witness: a poll request was lost before the deadline: the item is in
\* Error with the fetch message at progress 90 and no pipeline is in flight.
C26_Witness ==
    /\ now < DeadlineMs
    /\ \A t \in DOMAIN tasks : ~Live(t)
    /\ \E k \in DOMAIN uploadQueue :
          /\ uploadQueue[k].status = "error"
          /\ uploadQueue[k].error = FetchMsg
          /\ uploadQueue[k].progress = 90
    /\ rendered = uploadQueue

\* C27: a poll query that returns units once the deadline has passed is a
\* success all the same: the pipeline issues the patch and the item is not
\* put in Error; a poll query that returns an empty list then starts the
\* wait, the deadline being tested only when the wait is over; and a patch
\* that succeeds after the deadline leaves the item Complete.
C27_LatePollAnswerCounts ==
    [][\A t \in DOMAIN tasks :
        /\ (AfterGetMemoryUnits(t, "units") /\ now >= tasks[t].deadline)
            => /\ tasks'[t].pc = "patch"
               /\ tasks'[t].calls = Append(tasks[t].calls, "patch")
               /\ UNCHANGED uploadQueue
        /\ (AfterGetMemoryUnits(t, "empty") /\ now >= tasks[t].deadline)
            => /\ tasks'[t].pc = "sleep"
               /\ UNCHANGED uploadQueue
        /\ (AfterUpdateMemoryUnits(t, "ok") /\ now >= tasks[t].deadline)
            => \A k \in At(uploadQueue', tasks[t].id) :
                  /\ uploadQueue'[k].status = "complete"
                  /\ uploadQueue'[k].progress = 100]_vars

\* C27 witness: a poll query has returned units at or after the deadline of
\* its pipeline, and the pipeline is sending the patch.
C27_Witness ==
    \E t \in DOMAIN tasks :
        /\ Live(t) /\ tasks[t].pc = "patch"
        /\ now >= tasks[t].deadline
        /\ \E k \in At(uploadQueue, tasks[t].id) : uploadQueue[k].status = "processing"

\* the progress values a status goes with
ProgressOf(status) ==
    CASE status = "pending" -> {0}
      [] status = "uploading" -> {10, 30, 70}
      [] status = "processing" -> {90}
      [] status = "complete" -> {100}
      [] OTHER -> {0, 10, 30, 70, 90}

\* C28: when each item is dispatched at most once, status and progress
\* agree in every state: Pending has progress 0, Uploading 10, 30 or 70,
\* Processing 90, Complete 100, and Error one of 0, 10, 30, 70, 90 and
\* never 100.
C28_StatusAndProgressAgree ==
    \A k \in DOMAIN uploadQueue :
        /\ uploadQueue[k].progress \in ProgressOf(uploadQueue[k].status)
        /\ uploadQueue[k].status = "error" => uploadQueue[k].progress # 100

\* C28 witness: one item was dispatched with a blank field and is in Error
\* at progress 0, the other failed at its confirm and is in Error at 70.
C28_Witness ==
    /\ Len(uploadQueue) = 2
    /\ uploadQueue[1].status = "error" /\ uploadQueue[1].progress = 0
    /\ uploadQueue[1].error = RequiredMsg
    /\ uploadQueue[2].status = "error" /\ uploadQueue[2].progress = 70
    /\ uploadQueue[2].error = ApiMsg

\* C29: while an item is Uploading or Processing a drop adds no item; in
\* any other state a drop or a pick adds the first MaxFiles files of the
\* selection, all Pending, after the items already queued, and so none for
\* an empty selection; nothing but a drop or a pick makes the queue longer.
C29_DropZoneDisabledWhileActive ==
    [][/\ \A n \in DropSizes : \A rnds \in RandomRuns(n) :
            /\ (HandleDrop(Selection(n), rnds) /\ Disabled(uploadQueue))
                  => UNCHANGED uploadQueue
            /\ (/\ HandleDrop(Selection(n), rnds) \/ HandleFileChange(Selection(n), rnds)
                /\ ~Disabled(uploadQueue))
                  => /\ Len(uploadQueue') = Len(uploadQueue) + (IF n < MaxFiles THEN n ELSE MaxFiles)
                     /\ SubSeq(uploadQueue', 1, Len(uploadQueue)) = uploadQueue
                     /\ \A k \in Len(uploadQueue) + 1 .. Len(uploadQueue') :
                           uploadQueue'[k].status = "pending"
       /\ Disabled(uploadQueue) => Len(uploadQueue') = Len(uploadQueue)
       /\ Len(uploadQueue') <= Len(uploadQueue) + MaxFiles]_vars

\* C29 witness: the first item went through its pipeline, which waited
\* until the clock read MaxNow, and is Complete; a selection of MaxFiles
\* files or more was accepted after that, its MaxFiles items are Pending.
C29_Witness ==
    /\ Len(uploadQueue) = MaxFiles + 1
    /\ uploadQueue[1].status = "complete"
    /\ \A k \in 2 .. MaxFiles + 1 :
          /\ uploadQueue[k].status = "pending"
          /\ uploadQueue[k].id[2] = MaxNow
    /\ ~Disabled(uploadQueue)

\* the calls a pipeline has issued carry what its own exchanges returned
OwnResponsesUsed(t, task) ==
    \A i \in DOMAIN task.calls :
        /\ task.calls[i] = "put" =>
              /\ task.sent[i].url = InitResponse(t).upload_url
              /\ task.sent[i].file = task.item.file
              /\ task.initResponse = InitResponse(t)
        /\ task.calls[i] = "confirm" =>
              /\ task.sent[i].object_key = InitResponse(t).object_key
              /\ task.sent[i].object_id = InitResponse(t).object_id
        /\ task.calls[i] \in {"poll", "patch"} =>
              /\ task.sent[i].media_asset_id = task.confirmResponse.media_asset_id
              /\ task.confirmResponse = ConfirmResponse(task.sent[3])
              /\ task.sent[3].object_id = InitResponse(t).object_id

\* C30: with pipelines running concurrently, each pipeline's transfer uses
\* the upload URL of its own init, its confirm the object key and object id
\* of its own init, its polls and its patch the media_asset_id of its own
\* confirm, values no other pipeline holds; and a step of a pipeline changes
\* no item but those of its own item id and no other pipeline.
C30_NoCrossTalk ==
    [][/\ \A t \in DOMAIN tasks' : Live(t)' => OwnResponsesUsed(t, tasks'[t])
       /\ \A t, u \in DOMAIN tasks' :
             (t # u /\ tasks'[t].pc \notin {"init", "done"} /\ tasks'[u].pc \notin {"init", "done"})
                => /\ tasks'[t].initResponse.upload_url # tasks'[u].initResponse.upload_url
                   /\ tasks'[t].initResponse.object_id # tasks'[u].initResponse.object_id
       /\ \A t \in DOMAIN tasks :
             (Live(t) /\ tasks'[t] # tasks[t]) => OthersUntouched(tasks[t].id, {t})]_vars

\* C30 witness: two pipelines, for two items, have both sent their patch,
\* each with the media_asset_id of its own confirm.
C30_Witness ==
    /\ Len(tasks) = 2
    /\ tasks[1].pc = "patch" /\ tasks[2].pc = "patch"
    /\ tasks[1].id # tasks[2].id
    /\ tasks[1].sent[Len(tasks[1].sent)].media_asset_id = <<"asset", <<"obj", 1>>>>
    /\ tasks[2].sent[Len(tasks[2].sent)].media_asset_id = <<"asset", <<"obj", 2>>>>

====
